---- MODULE Spec2Model ----
(***************************************************************************)
(* Model of the weaviate python client's GFL workflow client              *)
(* (weaviate/collections/gfl/gfl.py) and of the near_vector query         *)
(* (weaviate/collections/queries/near_vector/query.py) over the wire      *)
(* schema of weaviate/proto/v1/search_get_pb2.py.                         *)
(*                                                                         *)
(* Conventions.  An Optional[T] value is a sequence of length at most     *)
(* one: None is << >> and a value v is <<v>>.  A Python string that the   *)
(* code edits with str.replace is a sequence of chunks, so that replace   *)
(* is computed and not assumed.                                            *)
(***************************************************************************)
EXTENDS Integers, Sequences, FiniteSets, TLC

VARIABLES
    connection,   \* the ConnectionV4 the GFL object was built from
    gfl,          \* the _GFLAsync object's fields
    closed,       \* whether close() has closed the AsyncClient
    gcalls,       \* the GFL calls (coroutines) in flight, by call id
    nv,           \* the near_vector call in progress on a collection
    nv2           \* a second near_vector call in progress on the same object

gflVars == <<connection, gfl, closed, gcalls>>
vars == <<connection, gfl, closed, gcalls, nv, nv2>>

None == << >>
Some(v) == <<v>>
IsNone(o) == o = << >>
Unwrap(o) == o[1]

(***************************************************************************)
(* Python helpers                                                          *)
(***************************************************************************)
\* str.replace(old, ""): every occurrence of the chunk is removed.
Replace(s, old) == SelectSeq(s, LAMBDA ch : ch # old)

\* dict.update on headers kept as sets of <<key, value>> pairs: a key of the
\* argument replaces the same key of the receiver.
DictUpdate(d, u) == {kv \in d : \A w \in u : w[1] # kv[1]} \cup u

(***************************************************************************)
(* _GFLBase.__init__                                                       *)
(***************************************************************************)
GFLTimeout == 40

GFLHost == <<"https://gfl.labs.weaviate.io">>

GFLBaseInit(conn, name) ==
    [ name         |-> name,
      gfl_host     |-> GFLHost,
      cluster_host |-> Replace(conn.url, ":443"),
      headers      |-> DictUpdate({<<"Content-Type", "application/json">>},
                                  conn.additional_headers),
      timeout      |-> GFLTimeout,
      token        |-> Replace(conn.bearer, "Bearer ") ]

\* Connections a collection can be opened on.
Connections ==
    { [ url |-> <<"https://cluster.weaviate.network", ":443">>,
        additional_headers |-> {<<"X-OpenAI-Api-Key", "sk">>},
        bearer |-> <<"Bearer ", "tok">> ],
      [ url |-> <<"http://localhost", ":8080">>,
        additional_headers |-> {<<"X-OpenAI-Api-Key", "sk">>},
        bearer |-> << >> ] }

\* The bearer token the connection holds after its token was refreshed.
RefreshedBearer == <<"Bearer ", "tok2">>

CollectionNames == {"Article"}

(***************************************************************************)
(* The HTTP client (httpx.AsyncClient) as the code sees it: an awaited     *)
(* request either raises or yields a Response.                             *)
(***************************************************************************)
\* httpx exceptions that derive from httpx.HTTPError.
HTTPErrors == {"ConnectError", "ReadTimeout", "HTTPStatusError"}

\* Transport failures raised by the client while sending.
TransportErrors == {"ConnectError", "ReadTimeout"}

\* Exceptions of the client that do not derive from httpx.HTTPError.
OtherErrors == {"RuntimeError"}

StatusCodes == {200, 400}

\* What a reply body holds: a JSON document that validates against the
\* pydantic model the operation expects, a JSON document that does not, or
\* text that is not JSON.
Bodies == {"valid", "invalid", "notjson"}

ClientFailure(e) == [kind |-> "error", exc |-> e, status |-> 0, body |-> "invalid"]
ClientResponse(s, b) == [kind |-> "response", exc |-> "", status |-> s, body |-> b]

\* Outcomes of one awaited self._client.<method>(...) call.
Outcomes(isClosed) ==
    IF isClosed
    THEN {ClientFailure(e) : e \in OtherErrors}
    ELSE {ClientFailure(e) : e \in TransportErrors \cup OtherErrors}
         \cup {ClientResponse(s, b) : s \in StatusCodes, b \in Bodies}

\* Response.raise_for_status(): raises HTTPStatusError on a 4xx/5xx reply.
RaisesForStatus(status) == status >= 400

(***************************************************************************)
(* What a call hands back to its caller.                                   *)
(***************************************************************************)
Raise(exc, msg, cause) ==
    [kind |-> "raise", exc |-> exc, msg |-> msg, cause |-> cause,
     value |-> [type |-> "none"], printed |-> FALSE]

Return(value, printed) ==
    [kind |-> "return", exc |-> "", msg |-> "", cause |-> "",
     value |-> value, printed |-> printed]

NoResult ==
    [kind |-> "none", exc |-> "", msg |-> "", cause |-> "",
     value |-> [type |-> "none"], printed |-> FALSE]

ResponseValue(o) == [type |-> "Response", status |-> o.status, body |-> o.body]

(***************************************************************************)
(* _GFLBase.get / post / put / delete, from the point where the awaited    *)
(* client call has produced outcome o.                                     *)
(***************************************************************************)
\* try: ... raise_for_status(); return response
\* except HTTPError as e: raise WeaviateConnectionError(msg) from e
Checked(o, msg) ==
    IF o.kind = "error"
    THEN IF o.exc \in HTTPErrors
         THEN Raise("WeaviateConnectionError", msg, o.exc)
         ELSE Raise(o.exc, "", "")
    ELSE IF RaisesForStatus(o.status)
         THEN Raise("WeaviateConnectionError", msg, "HTTPStatusError")
         ELSE Return(ResponseValue(o), FALSE)

get(o) == Checked(o, "GET request failed")

\* post without its except clause: what the client raises reaches the caller.
post_unwrapped(o) ==
    IF o.kind = "error"
    THEN Raise(o.exc, "", "")
    ELSE Return(ResponseValue(o), o.status >= 400)

\* raise_for_status is commented out: a status >= 400 is printed and the
\* response is returned.
post(o) ==
    IF o.kind = "error"
    THEN IF o.exc \in HTTPErrors
         THEN Raise("WeaviateConnectionError", "POST request failed", o.exc)
         ELSE Raise(o.exc, "", "")
    ELSE Return(ResponseValue(o), o.status >= 400)

put(o) == Checked(o, "PUT request failed")

delete(o) == Checked(o, "DELETE request failed")

(***************************************************************************)
(* _GFLAsync.create / update / query / status: the request each builds     *)
(***************************************************************************)
HttpRequest(method, path, params, json, timeout) ==
    [method |-> method, path |-> path, params |-> params, json |-> json,
     timeout |-> timeout]

NoRequest == HttpRequest("", << >>, None, None, 0)

create_json(self, a) ==
    [ uuids             |-> a.uuids,
      collection        |-> self.name,
      instruction       |-> a.instruction,
      on_properties     |-> <<[name |-> a.property_name, data_type |-> a.data_type]>>,
      view_properties   |-> a.view_properties,
      weaviate          |-> [url |-> self.cluster_host, key |-> self.token],
      headers           |-> self.headers,
      tenant            |-> a.tenant,
      model             |-> a.model,
      api_key_for_model |-> a.api_key_for_model ]

update_json(self, a) ==
    [ uuids             |-> a.uuids,
      collection        |-> self.name,
      instruction       |-> a.instruction,
      on_properties     |-> a.on_properties,
      view_properties   |-> a.view_properties,
      weaviate          |-> [url |-> self.cluster_host, key |-> self.token],
      headers           |-> self.headers,
      tenant            |-> a.tenant,
      model             |-> a.model,
      api_key_for_model |-> a.api_key_for_model ]

\* A default taken for None only: `default if x is None else x`.
OrDefault_none_only(x, default) ==
    IF IsNone(x) THEN default ELSE Unwrap(x)

\* Python's `x or default` on an Optional[List]: None and [] are falsy.
OrDefault(x, default) ==
    IF IsNone(x) \/ Unwrap(x) = << >> THEN default ELSE Unwrap(x)

DefaultFunctions == <<"weaviate-search", "weaviate-gorilla">>

query_json(self, a) ==
    [ query        |-> a.query,
      weaviate     |-> [url |-> self.cluster_host, key |-> self.token],
      collections  |-> OrDefault(a.collections,
                          <<[name |-> self.name, description |-> a.description]>>),
      tenant       |-> a.tenant,
      functions    |-> OrDefault(a.functions, DefaultFunctions),
      call_budget  |-> a.call_budget,
      llm_provider |-> [provider |-> a.lm_provider,
                        provider_model_name |-> a.model_name,
                        api_key |-> a.api_key],
      headers      |-> {<<"X-OpenAI-Api-Key", a.api_key>>} ]

\* The HTTP request an operation sends, from its arguments.
GflRequest(self, op, a) ==
    CASE op = "get"    -> HttpRequest("GET", a.path, a.params, None, self.timeout)
      [] op = "post"   -> HttpRequest("POST", a.path, None, a.json, self.timeout)
      [] op = "put"    -> HttpRequest("PUT", a.path, None, a.json, self.timeout)
      [] op = "delete" -> HttpRequest("DELETE", a.path, None, None, self.timeout)
      [] op = "create" -> HttpRequest("POST", <<"/gfls/create">>, None,
                                      Some(create_json(self, a)), self.timeout)
      [] op = "update" -> HttpRequest("POST", <<"/gfls/update">>, None,
                                      Some(update_json(self, a)), self.timeout)
      [] op = "query"  -> HttpRequest("POST", <<"/agent/query">>, None,
                                      Some(query_json(self, a)), self.timeout)
      [] op = "status" -> HttpRequest("GET", <<"/gfls/status/", a.workflow_id>>,
                                      None, None, self.timeout)

(***************************************************************************)
(* ... and what each does with the reply                                   *)
(***************************************************************************)
\* <Model>.model_validate(response.json()) on what the request method gave:
\* response.json() raises on a body that is not JSON, model_validate on a
\* document that does not fit the model.
Validated(r, model) ==
    IF r.kind = "raise" THEN r
    ELSE IF r.value.body = "notjson"
         THEN [Raise("JSONDecodeError", "", "") EXCEPT !.printed = r.printed]
    ELSE IF r.value.body = "valid"
         THEN Return([type |-> model, status |-> r.value.status,
                      body |-> r.value.body], r.printed)
         ELSE [Raise("ValidationError", "", "") EXCEPT !.printed = r.printed]

create(o) == Validated(post(o), "GFLResponse")

update(o) == Validated(post(o), "GFLResponse")

query(o) == Validated(post(o), "GFLQueryResponse")

status(o) == Validated(get(o), "GFLStatusResponse")

\* The result of operation op once its awaited client call produced o.
GflFinish(op, o) ==
    CASE op = "get"    -> get(o)
      [] op = "post"   -> post(o)
      [] op = "put"    -> put(o)
      [] op = "delete" -> delete(o)
      [] op = "create" -> create(o)
      [] op = "update" -> update(o)
      [] op = "query"  -> query(o)
      [] op = "status" -> status(o)

(***************************************************************************)
(* Arguments the operations are called with                                *)
(***************************************************************************)
RawArgs ==
    [ path : { <<"/gfls/x">> }, params : {None},
      json : {None, Some([instruction |-> "i"])} ]

CreateArgs ==
    [ property_name : {"summary"}, data_type : {"text"},
      view_properties : { <<"title">> }, instruction : {"summarise"},
      uuids : {None, Some(<<"u1">>)}, tenant : {None},
      model : {"weaviate"}, api_key_for_model : {None} ]

UpdateArgs ==
    [ instruction : {"fix"}, view_properties : { <<"title">> },
      on_properties : { <<"summary">> },
      uuids : {None, Some(<<"u1">>)}, tenant : {None},
      model : {"weaviate"}, api_key_for_model : {None} ]

QueryArgs ==
    [ query : {"q"},
      collections : {None, Some(<< >>),
                     Some(<<[name |-> "Other", description |-> Some("d")]>>)},
      tenant : {None},
      functions : {None, Some(<< >>), Some(<<"weaviate-search">>)},
      call_budget : {20}, lm_provider : {"openai"}, model_name : {"gpt-4"},
      api_key : {None}, description : {None, Some("articles")} ]

StatusArgs == [ workflow_id : {"w1"} ]

GflOps == {"get", "post", "put", "delete", "create", "update", "query", "status"}

GflArgs(op) ==
    CASE op \in {"get", "post", "put", "delete"} -> RawArgs
      [] op = "create" -> CreateArgs
      [] op = "update" -> UpdateArgs
      [] op = "query"  -> QueryArgs
      [] op = "status" -> StatusArgs

(***************************************************************************)
(* The GFL calls as steps: a coroutine runs from its call to its one       *)
(* await of the client, and from the client's outcome to its end.          *)
(***************************************************************************)
GCalls == {"c1", "c2"}

NoOutcome == [kind |-> "none", exc |-> "", status |-> 0, body |-> "invalid"]

\* sent counts the requests handed to the client by the call; outcome is
\* what the client gave back for the request the call awaits.
\* No call, no arguments.
NoArgs == [none |-> TRUE]

IdleCall ==
    [pc |-> "idle", op |-> "", args |-> NoArgs, request |-> NoRequest,
     sent |-> 0, outcome |-> NoOutcome, result |-> NoResult]

\* A coroutine that reads the token from the connection when it builds the
\* request.
GflStarted_current_token(self, op, a) ==
    [pc |-> "awaiting", op |-> op, args |-> a,
     request |-> GflRequest([self EXCEPT !.token = Replace(connection.bearer, "Bearer ")],
                            op, a),
     sent |-> 1, outcome |-> NoOutcome, result |-> NoResult]

\* The coroutine up to `await self._client.<method>(...)`: the request is
\* built and handed to the client.
GflStarted(self, op, a) ==
    [pc |-> "awaiting", op |-> op, args |-> a,
     request |-> GflRequest(self, op, a),
     sent |-> 1, outcome |-> NoOutcome, result |-> NoResult]

\* A resumption that sends the request again when the client failed.
GflResumed_retry(call, o) ==
    IF o.kind = "error" /\ o.exc \in HTTPErrors
    THEN [call EXCEPT !.sent = call.sent + 1]
    ELSE [call EXCEPT !.pc = "done", !.outcome = o,
                      !.result = GflFinish(call.op, o)]

\* The coroutine from the client's outcome o to its return or raise.
GflResumed(call, o) ==
    [call EXCEPT !.pc = "done", !.outcome = o, !.result = GflFinish(call.op, o)]

GflCall(c) ==
    /\ gcalls[c].pc = "idle"
    /\ \E op \in GflOps : \E a \in GflArgs(op) :
          gcalls' = [gcalls EXCEPT ![c] = GflStarted(gfl, op, a)]
    /\ UNCHANGED <<connection, gfl, closed>>

GflComplete(c) ==
    /\ gcalls[c].pc = "awaiting"
    /\ \E o \in Outcomes(closed) :
          gcalls' = [gcalls EXCEPT ![c] = GflResumed(gcalls[c], o)]
    /\ UNCHANGED <<connection, gfl, closed>>

\* The caller has the result; the call is over.
GflReturn(c) ==
    /\ gcalls[c].pc = "done"
    /\ gcalls' = [gcalls EXCEPT ![c] = IdleCall]
    /\ UNCHANGED <<connection, gfl, closed>>

\* _GFLBase.close
close ==
    /\ ~closed
    /\ closed' = TRUE
    /\ UNCHANGED <<connection, gfl, gcalls>>

\* The connection refreshes its access token: get_current_bearer_token()
\* gives another token from now on.
RefreshToken ==
    /\ connection.bearer # RefreshedBearer
    /\ connection' = [connection EXCEPT !.bearer = RefreshedBearer]
    /\ UNCHANGED <<gfl, closed, gcalls>>

GflInit ==
    /\ connection \in Connections
    /\ \E name \in CollectionNames : gfl = GFLBaseInit(connection, name)
    /\ closed = FALSE
    /\ gcalls = [c \in GCalls |-> IdleCall]

GflNext ==
    /\ \/ \E c \in GCalls : GflCall(c)
       \/ \E c \in GCalls : GflComplete(c)
       \/ \E c \in GCalls : GflReturn(c)
       \/ close
       \/ RefreshToken
    /\ UNCHANGED <<nv, nv2>>

(***************************************************************************)
(* The wire schema (v1/search_get.proto as compiled in search_get_pb2.py). *)
(* A message is a record of its fields.  A field declared `optional` or of *)
(* message type has presence and is an Optional; a plain scalar has none   *)
(* and holds the type's zero value when unset; a repeated field is a       *)
(* sequence.                                                               *)
(***************************************************************************)
\* The search-mode fields of SearchRequest (fields 41..51 and 60).
ModeFields ==
    {"hybrid_search", "bm25_search", "near_vector", "near_object", "near_text",
     "near_image", "near_audio", "near_video", "near_depth", "near_thermal",
     "near_imu", "generative"}

\* The boolean flags of MetadataRequest (fields 1..9).
MetadataFlags ==
    {"uuid", "vector", "creation_time_unix", "last_update_time_unix",
     "distance", "certainty", "score", "explain_score", "is_consistent"}

\* The MetadataResult attributes that have a "_present" companion field.
PresenceAttrs ==
    {"creation_time_unix", "last_update_time_unix", "distance", "certainty",
     "score", "explain_score", "is_consistent", "rerank_score", "generative"}

\* MetadataRequest with no field set.
MetadataRequest ==
    [ uuid |-> FALSE, vector |-> FALSE, creation_time_unix |-> FALSE,
      last_update_time_unix |-> FALSE, distance |-> FALSE, certainty |-> FALSE,
      score |-> FALSE, explain_score |-> FALSE, is_consistent |-> FALSE,
      vectors |-> << >> ]

\* PropertiesRequest with no field set.
PropertiesRequest ==
    [ non_ref_properties |-> << >>, ref_properties |-> << >>,
      object_properties |-> << >>, return_all_nonref_properties |-> FALSE ]

\* RefPropertiesRequest with no field set; properties and metadata are
\* message fields and have presence.
RefPropertiesRequest ==
    [ reference_property |-> "", properties |-> None, metadata |-> None,
      target_collection |-> "" ]

\* NearVector with no field set.
NearVector ==
    [ vector |-> << >>, certainty |-> None, distance |-> None,
      vector_bytes |-> << >>, target_vectors |-> << >> ]

\* SearchRequest with no field set.
SearchRequest ==
    [ collection |-> "", tenant |-> "", consistency_level |-> None,
      properties |-> None, metadata |-> None, group_by |-> None,
      limit |-> 0, offset |-> 0, autocut |-> 0, after |-> "",
      sort_by |-> << >>, filters |-> None,
      hybrid_search |-> None, bm25_search |-> None, near_vector |-> None,
      near_object |-> None, near_text |-> None, near_image |-> None,
      near_audio |-> None, near_video |-> None, near_depth |-> None,
      near_thermal |-> None, near_imu |-> None, generative |-> None,
      rerank |-> None, uses_123_api |-> FALSE, uses_125_api |-> FALSE ]

\* MetadataResult with no field set: each attribute holds its zero value and
\* each "_present" companion is false.
MetadataResult ==
    [ id |-> "", vector_bytes |-> << >>, vectors |-> << >>,
      value   |-> [a \in PresenceAttrs |-> 0],
      present |-> [a \in PresenceAttrs |-> FALSE] ]

\* The search-mode fields a request has present.
PresentModes(req) == {f \in ModeFields : ~IsNone(req[f])}

(***************************************************************************)
(* near_vector: arguments                                                  *)
(***************************************************************************)
\* include_vector is a bool or a list of vector names.
IncludeBool(b) == [kind |-> "bool", b |-> b, names |-> << >>]
IncludeNames(l) == [kind |-> "list", b |-> FALSE, names |-> l]

\* The names a caller can put in return_metadata.
MetadataNames ==
    {"uuid", "creation_time", "last_update_time", "distance", "certainty",
     "score", "explain_score", "is_consistent"}

\* The MetadataRequest flag a return_metadata name stands for.
FlagOf(name) ==
    CASE name = "creation_time"    -> "creation_time_unix"
      [] name = "last_update_time" -> "last_update_time_unix"
      [] OTHER                     -> name

OptionalNumbers == {None, Some(0)}

OptionalLimits == {None, Some(0), Some(2)}

\* return_metadata: None, an empty selection, some names, every name.
ReturnMetadataValues == {None, Some({}), Some({"distance"}), Some(MetadataNames)}

\* return_references: None, an empty list, one reference.
ReturnReferencesValues == {None, Some(<< >>), Some(<<"author">>)}

\* Calls over every combination of the scalar arguments, each with a
\* non-empty selection or none.
ThresholdArgs ==
    [ near_vector       : { <<1, 2>> },
      certainty         : OptionalNumbers,
      distance          : OptionalNumbers,
      limit             : OptionalLimits,
      offset            : OptionalNumbers,
      auto_limit        : OptionalNumbers,
      filters           : {None, Some("title = a")},
      group_by          : {None, Some([prop |-> "title", number_of_groups |-> 1,
                                       objects_per_group |-> 2])},
      rerank            : {None, Some([prop |-> "title", query |-> Some("q")])},
      target_vector     : {None, Some("tv")},
      include_vector    : {IncludeBool(FALSE), IncludeBool(TRUE),
                           IncludeNames(<<"tv">>)},
      return_metadata   : ReturnMetadataValues \ {Some({})},
      return_properties : {None, Some(<<"title">>), Some(<<"title", "image">>)},
      return_references : ReturnReferencesValues \ {Some(<< >>)} ]

\* Calls over every combination of the arguments that _QueryOptions.from_input
\* receives as well (query.py:97-105), empty selections included.
SelectionArgs ==
    [ near_vector       : { <<1, 2>> },
      certainty         : {None},
      distance          : {None},
      limit             : {None},
      offset            : {None},
      auto_limit        : {None},
      filters           : {None},
      group_by          : {None, Some([prop |-> "title", number_of_groups |-> 1,
                                       objects_per_group |-> 2])},
      rerank            : {None, Some([prop |-> "title", query |-> Some("q")])},
      target_vector     : {None},
      include_vector    : {IncludeBool(FALSE), IncludeBool(TRUE),
                           IncludeNames(<<"tv">>)},
      return_metadata   : ReturnMetadataValues,
      return_properties : {None, Some(<<"title">>), Some(<<"title", "image">>)},
      return_references : ReturnReferencesValues ]

NearVectorArgs == ThresholdArgs \cup SelectionArgs

\* The collection object the query runs on (_BaseQuery's fields), opened
\* without references ...
QuerySelf == [name |-> "Article", tenant |-> "", references |-> None]

\* ... and opened with a references model (self._references).
QuerySelfWithReferences ==
    [name |-> "Article", tenant |-> "", references |-> Some(<<"author">>)]

QuerySelves == {QuerySelf, QuerySelfWithReferences}

\* The calls made: <<self, arguments>>.  The object with references is
\* called with the arguments that reach _QueryOptions.from_input with it.
NearVectorInputs ==
    {<<QuerySelf, a>> : a \in NearVectorArgs}
        \cup {<<QuerySelfWithReferences, a>> : a \in SelectionArgs}

(***************************************************************************)
(* _BaseQuery helpers and _QueryGRPC.near_vector: the request builder      *)
(***************************************************************************)
\* _GroupBy.from_input
GroupBy_from_input(group_by) ==
    IF IsNone(group_by) THEN None
    ELSE Some([path |-> <<Unwrap(group_by).prop>>,
               number_of_groups |-> Unwrap(group_by).number_of_groups,
               objects_per_group |-> Unwrap(group_by).objects_per_group])

\* _BaseQuery._parse_return_metadata: the metadata selection handed to the
\* builder.  return_metadata=None selects nothing; include_vector folds in.
parse_return_metadata(return_metadata, include_vector) ==
    [ flags   |-> IF IsNone(return_metadata) THEN {}
                  ELSE {FlagOf(n) : n \in Unwrap(return_metadata)},
      vector  |-> include_vector.kind = "bool" /\ include_vector.b,
      vectors |-> IF include_vector.kind = "list" THEN include_vector.names
                  ELSE << >> ]

\* _BaseQuery._parse_return_properties
parse_return_properties(return_properties) == return_properties

\* _BaseQuery._parse_return_references
parse_return_references(return_references) == return_references

\* The MetadataRequest message for a metadata selection.
metadata_to_grpc(md) ==
    [ uuid                  |-> "uuid" \in md.flags,
      vector                |-> md.vector,
      creation_time_unix    |-> "creation_time_unix" \in md.flags,
      last_update_time_unix |-> "last_update_time_unix" \in md.flags,
      distance              |-> "distance" \in md.flags,
      certainty             |-> "certainty" \in md.flags,
      score                 |-> "score" \in md.flags,
      explain_score         |-> "explain_score" \in md.flags,
      is_consistent         |-> "is_consistent" \in md.flags,
      vectors               |-> md.vectors ]

\* The RefPropertiesRequest message for a reference given by its name: the
\* name is set; nothing is selected inside the reference.
ref_property_to_grpc(name) ==
    [RefPropertiesRequest EXCEPT !.reference_property = name]

\* The PropertiesRequest message: no property list asks for all non-reference
\* properties; references are asked for only when given.
properties_to_grpc(props, refs) ==
    [ non_ref_properties |-> IF IsNone(props) THEN << >> ELSE Unwrap(props),
      ref_properties     |-> IF IsNone(refs) THEN << >>
                             ELSE [k \in 1..Len(Unwrap(refs)) |->
                                     ref_property_to_grpc(Unwrap(refs)[k])],
      object_properties  |-> << >>,
      return_all_nonref_properties |-> IsNone(props) ]

\* An Optional caller value on a plain scalar field: the value, or the zero
\* value the field has when unset.
ScalarField(o) == IF IsNone(o) THEN 0 ELSE Unwrap(o)

\* The search-mode sub-message of a builder call.
ModeMessage(call) ==
    [ NearVector EXCEPT
        !.vector_bytes   = call.near_vector,
        !.certainty      = call.certainty,
        !.distance       = call.distance,
        !.target_vectors = IF IsNone(call.target_vector) THEN << >>
                           ELSE <<Unwrap(call.target_vector)>> ]

\* _QueryGRPC.<method>: the SearchRequest built for a builder call; the
\* method decides the one search-mode field that is set.
QueryGRPC_request(self, call) ==
    [ SearchRequest EXCEPT
        !.collection    = self.name,
        !.tenant        = self.tenant,
        !.properties    = Some(properties_to_grpc(call.return_properties,
                                                  call.return_references)),
        !.metadata      = Some(metadata_to_grpc(call.return_metadata)),
        !.group_by      = call.group_by,
        !.limit         = ScalarField(call.limit),
        !.offset        = ScalarField(call.offset),
        !.autocut       = ScalarField(call.autocut),
        !.filters       = call.filters,
        !.rerank        = call.rerank,
        ![call.method]  = Some(ModeMessage(call)),
        !.uses_123_api  = TRUE,
        !.uses_125_api  = TRUE ]

\* The number of transport round trips one _QueryGRPC call makes.
QueryGRPC_round_trips == 1

(***************************************************************************)
(* _NearVectorQuery.near_vector, first statement: the builder call         *)
(***************************************************************************)
\* Variants of the builder call with one argument passed wrongly.
near_vector_query_with(a, method, return_metadata, include_vector, return_properties, return_references) ==
    [ method            |-> method,
      near_vector       |-> a.near_vector,
      certainty         |-> a.certainty,
      distance          |-> a.distance,
      limit             |-> a.limit,
      offset            |-> a.offset,
      autocut           |-> a.auto_limit,
      filters           |-> a.filters,
      group_by          |-> GroupBy_from_input(a.group_by),
      rerank            |-> a.rerank,
      target_vector     |-> a.target_vector,
      return_metadata   |-> parse_return_metadata(return_metadata, include_vector),
      return_properties |-> parse_return_properties(return_properties),
      return_references |-> parse_return_references(return_references) ]

\* ... dispatched to self._query.near_object
near_vector_query_other_mode(a) ==
    near_vector_query_with(a, "near_object", a.return_metadata, a.include_vector,
                           a.return_properties, a.return_references)

\* ... with all metadata asked for when return_metadata is None
near_vector_query_full_metadata(a) ==
    near_vector_query_with(a, "near_vector",
                           IF IsNone(a.return_metadata) THEN Some(MetadataNames)
                           ELSE a.return_metadata,
                           a.include_vector, a.return_properties,
                           a.return_references)

\* ... with include_vector not handed to _parse_return_metadata
near_vector_query_drop_vector(a) ==
    near_vector_query_with(a, "near_vector", a.return_metadata, IncludeBool(FALSE),
                           a.return_properties, a.return_references)

\* ... with distance left out and limit passed as autocut
near_vector_query_lost_scalars(a) ==
    [ near_vector_query_with(a, "near_vector", a.return_metadata, a.include_vector,
                             a.return_properties, a.return_references)
      EXCEPT !.distance = None, !.autocut = a.limit ]

\* ... with `return_properties or []`
near_vector_query_no_properties(a) ==
    near_vector_query_with(a, "near_vector", a.return_metadata, a.include_vector,
                           IF IsNone(a.return_properties) THEN Some(<< >>)
                           ELSE a.return_properties,
                           a.return_references)

\* ... with return_properties parsed as the references
near_vector_query_props_as_refs(a) ==
    near_vector_query_with(a, "near_vector", a.return_metadata, a.include_vector,
                           a.return_properties, a.return_properties)

near_vector_query(a) ==
    [ method            |-> "near_vector",
      near_vector       |-> a.near_vector,
      certainty         |-> a.certainty,
      distance          |-> a.distance,
      limit             |-> a.limit,
      offset            |-> a.offset,
      autocut           |-> a.auto_limit,
      filters           |-> a.filters,
      group_by          |-> GroupBy_from_input(a.group_by),
      rerank            |-> a.rerank,
      target_vector     |-> a.target_vector,
      return_metadata   |-> parse_return_metadata(a.return_metadata, a.include_vector),
      return_properties |-> parse_return_properties(a.return_properties),
      return_references |-> parse_return_references(a.return_references) ]

(***************************************************************************)
(* The server behind the transport: the objects of the collection and the  *)
(* reply to a request.                                                     *)
(***************************************************************************)
MaxResults == 2

\* Properties of the stored objects by data type, and their references.
TextProps == {"title"}
BlobProps == {"image"}
NonRefProps == TextProps \cup BlobProps
RefProps == <<"author">>

PropValue(i, p) == p \o ToString(i)

AttrOrder ==
    <<"distance", "certainty", "score", "explain_score", "is_consistent",
      "creation_time_unix", "last_update_time_unix", "rerank_score", "generative">>

\* The value the server holds for attribute a of object i; zero is a value.
AttrValue(i, a) == (i + (CHOOSE k \in 1..Len(AttrOrder) : AttrOrder[k] = a)) % 2

\* Whether a request asks for attribute a.
AttrRequested(req, a) ==
    CASE a = "rerank_score" -> ~IsNone(req.rerank)
      [] a = "generative"   -> ~IsNone(req.generative)
      [] OTHER              -> Unwrap(req.metadata)[a]

\* How the server fills a reply: "full" populates what was asked for,
\* "sparse" populates no metadata attribute, "eager" also resolves references
\* and leaves values in attributes that were not asked for.
ReplyModes == {"full", "sparse", "eager"}

ServerMetadata(req, i, mode) ==
    [ id           |-> IF Unwrap(req.metadata).uuid THEN "uuid" \o ToString(i) ELSE "",
      vector_bytes |-> IF Unwrap(req.metadata).vector THEN <<i>> ELSE << >>,
      vectors      |-> Unwrap(req.metadata).vectors,
      value        |-> [a \in PresenceAttrs |->
                          IF mode = "eager" \/ (mode = "full" /\ AttrRequested(req, a))
                          THEN AttrValue(i, a) ELSE 0],
      present      |-> [a \in PresenceAttrs |->
                          mode # "sparse" /\ AttrRequested(req, a)] ]

ServerRefs(req, i, mode) ==
    LET asked == Unwrap(req.properties).ref_properties
        names == IF mode = "eager" THEN RefProps
                 ELSE [k \in 1..Len(asked) |-> asked[k].reference_property]
    IN  [k \in 1..Len(names) |->
            [prop_name |-> names[k], target |-> names[k] \o ToString(i)]]

ServerProperties(req, i, mode) ==
    LET pr    == Unwrap(req.properties)
        named == {pr.non_ref_properties[k] : k \in 1..Len(pr.non_ref_properties)}
        given == IF pr.return_all_nonref_properties
                 THEN NonRefProps \ BlobProps
                 ELSE named \cap NonRefProps
    IN  [ non_ref_props       |-> [p \in given |-> PropValue(i, p)],
          ref_props           |-> ServerRefs(req, i, mode),
          target_collection   |-> req.collection,
          ref_props_requested |-> pr.ref_properties # << >> ]

SearchResult(req, i, mode) ==
    [ properties |-> ServerProperties(req, i, mode),
      metadata   |-> ServerMetadata(req, i, mode) ]

\* SearchReply for the first n objects: a flat list, or one bucket per
\* request with group_by.
SearchReply(req, n, mode) ==
    LET found == [i \in 1..n |-> SearchResult(req, i, mode)]
    IN  IF IsNone(req.group_by)
        THEN [ took |-> 1, results |-> found, group_by_results |-> << >> ]
        ELSE [ took |-> 1, results |-> << >>,
               group_by_results |->
                   IF n = 0 THEN << >>
                   ELSE <<[name |-> "group", number_of_objects |-> n,
                           objects |-> found]>> ]

EmptyReply == [took |-> 0, results |-> << >>, group_by_results |-> << >>]

Replies(req) ==
    {SearchReply(req, n, mode) : n \in 0..MaxResults, mode \in ReplyModes}

(***************************************************************************)
(* The result decoder: _QueryOptions.from_input and                        *)
(* _BaseQuery._result_to_query_or_groupby_return                           *)
(***************************************************************************)
QueryOptions_from_input(return_metadata, return_properties, include_vector, collection_references, return_references, rerank, group_by) ==
    [ include_metadata   |-> ~IsNone(return_metadata) \/ ~IsNone(rerank),
      include_properties |-> IsNone(return_properties)
                             \/ Unwrap(return_properties) # << >>,
      include_references |-> ~IsNone(return_references)
                             \/ ~IsNone(collection_references),
      include_vector     |-> include_vector.b \/ include_vector.names # << >>,
      is_group_by        |-> ~IsNone(group_by) ]

\* A decoder that reads the wire value whatever the "_present" companion says.
extract_metadata_unflagged(m) ==
    [a \in PresenceAttrs |-> Some(m.value[a])]

\* An attribute is exposed only when its "_present" companion is true.
extract_metadata(m) ==
    [a \in PresenceAttrs |-> IF m.present[a] THEN Some(m.value[a]) ELSE None]

\* The references of a result that the caller asked for.
extract_references(props, return_references) ==
    LET asked == {Unwrap(return_references)[k] :
                     k \in 1..Len(Unwrap(return_references))}
    IN  SelectSeq(props.ref_props, LAMBDA r : r.prop_name \in asked)

result_to_object(res, options, return_references) ==
    [ uuid       |-> res.metadata.id,
      metadata   |-> extract_metadata(res.metadata),
      properties |-> res.properties.non_ref_props,
      references |-> IF options.include_references /\ ~IsNone(return_references)
                     THEN Some(extract_references(res.properties, return_references))
                     ELSE None,
      vector     |-> IF options.include_vector
                     THEN [default |-> res.metadata.vector_bytes,
                           named   |-> res.metadata.vectors]
                     ELSE [default |-> << >>, named |-> << >>] ]

\* Sequence concatenation of the buckets' objects, in bucket order.
RECURSIVE Flatten(_)
Flatten(groups) ==
    IF groups = << >> THEN << >>
    ELSE Head(groups).objects \o Flatten(Tail(groups))

\* A decoder that hands the objects back in descending wire order.
result_to_query_or_groupby_return_resorted(d) ==
    LET dec(r) == result_to_object(r, d.options, d.return_references)
        objs   == IF d.options.is_group_by
                  THEN Flatten(d.res.group_by_results) ELSE d.res.results
    IN  [ type    |-> IF d.options.is_group_by THEN "GroupByReturn" ELSE "QueryReturn",
          objects |-> [k \in 1..Len(objs) |-> dec(objs[Len(objs) + 1 - k])],
          groups  |-> IF d.options.is_group_by
                      THEN [g \in 1..Len(d.res.group_by_results) |->
                               d.res.group_by_results[g].name]
                      ELSE << >> ]

result_to_query_or_groupby_return(d) ==
    LET dec(r) == result_to_object(r, d.options, d.return_references)
    IN  IF d.options.is_group_by
        THEN LET objs == Flatten(d.res.group_by_results)
             IN  [ type    |-> "GroupByReturn",
                   objects |-> [k \in 1..Len(objs) |-> dec(objs[k])],
                   groups  |-> [g \in 1..Len(d.res.group_by_results) |->
                                   d.res.group_by_results[g].name] ]
        ELSE [ type    |-> "QueryReturn",
               objects |-> [k \in 1..Len(d.res.results) |-> dec(d.res.results[k])],
               groups  |-> << >> ]

(***************************************************************************)
(* _NearVectorQuery.near_vector, second statement: the decoder call        *)
(***************************************************************************)
\* ... with include_vector left at its default in the options
near_vector_decode_default_vector(self, a, res) ==
    [ res     |-> res,
      options |-> QueryOptions_from_input(a.return_metadata, a.return_properties,
                                          IncludeBool(FALSE), self.references,
                                          a.return_references, a.rerank,
                                          a.group_by),
      return_properties |-> a.return_properties,
      return_references |-> a.return_references ]

\* ... with rerank and group_by handed over in each other's place
near_vector_decode_swapped(self, a, res) ==
    [ res     |-> res,
      options |-> QueryOptions_from_input(a.return_metadata, a.return_properties,
                                          a.include_vector, self.references,
                                          a.return_references, a.group_by,
                                          a.rerank),
      return_properties |-> a.return_properties,
      return_references |-> a.return_references ]

near_vector_decode(self, a, res) ==
    [ res     |-> res,
      options |-> QueryOptions_from_input(a.return_metadata, a.return_properties,
                                          a.include_vector, self.references,
                                          a.return_references, a.rerank,
                                          a.group_by),
      return_properties |-> a.return_properties,
      return_references |-> a.return_references ]

(***************************************************************************)
(* near_vector as steps: the call builds the request and blocks on the     *)
(* round trip; the reply arrives; the reply is decoded; the caller has the *)
(* result.                                                                 *)
(***************************************************************************)
\* No _QueryOptions built yet.
NoOptions ==
    [ include_metadata |-> FALSE, include_properties |-> FALSE,
      include_references |-> FALSE, include_vector |-> FALSE,
      is_group_by |-> FALSE ]

IdleQuery ==
    [pc |-> "idle", self |-> QuerySelf, args |-> NoArgs,
     request |-> SearchRequest, sends |-> 0,
     replies |-> 0, reply |-> EmptyReply, options |-> NoOptions,
     result |-> NoResult]

\* A request in flight for another near_vector call on the same object.
OtherRequestInFlight ==
    IF nv.pc = "awaiting" THEN Some(nv.request)
    ELSE IF nv2.pc = "awaiting" THEN Some(nv2.request)
    ELSE None

\* A builder that keeps the request it is building on the object: a call
\* that starts while another is in flight sends that call's request.
NearVectorStarted_shared(self, a) ==
    [ pc      |-> "awaiting",
      self    |-> self,
      args    |-> a,
      request |-> IF IsNone(OtherRequestInFlight)
                  THEN QueryGRPC_request(self, near_vector_query(a))
                  ELSE Unwrap(OtherRequestInFlight),
      sends   |-> QueryGRPC_round_trips,
      replies |-> 0,
      reply   |-> EmptyReply,
      options |-> NoOptions,
      result  |-> NoResult ]

\* near_vector up to the transport call made inside self._query.near_vector.
NearVectorStarted(self, a) ==
    [ pc      |-> "awaiting",
      self    |-> self,
      args    |-> a,
      request |-> QueryGRPC_request(self, near_vector_query(a)),
      sends   |-> QueryGRPC_round_trips,
      replies |-> 0,
      reply   |-> EmptyReply,
      options |-> NoOptions,
      result  |-> NoResult ]

\* res = self._query.near_vector(...) has returned the reply.
NearVectorReceived(call, reply) ==
    [call EXCEPT !.pc = "received", !.replies = call.replies + 1, !.reply = reply]

\* A decode step that goes back to the transport.
NearVectorDecoded_refetch(self, call) ==
    [call EXCEPT
        !.pc = "done",
        !.sends = call.sends + 1,
        !.options = near_vector_decode(self, call.args, call.reply).options,
        !.result = Return(result_to_query_or_groupby_return(
                              near_vector_decode(self, call.args, call.reply)),
                          FALSE)]

\* return self._result_to_query_or_groupby_return(res, ...)
NearVectorDecoded(self, call) ==
    [call EXCEPT
        !.pc = "done",
        !.options = near_vector_decode(self, call.args, call.reply).options,
        !.result = Return(result_to_query_or_groupby_return(
                              near_vector_decode(self, call.args, call.reply)),
                          FALSE)]

\* The transport failed: near_vector raises what self._query raised.
NearVectorFailed(call) ==
    [call EXCEPT !.pc = "done", !.result = Raise("WeaviateGRPCQueryError", "", "")]

\* The steps of one near_vector call whose record is call now and next
\* after the step.
NearVectorCallOn(call, next, inputs) ==
    /\ call.pc = "idle"
    /\ \E in \in inputs : next = NearVectorStarted(in[1], in[2])

QueryReplyOn(call, next) ==
    /\ call.pc = "awaiting"
    /\ \E reply \in Replies(call.request) : next = NearVectorReceived(call, reply)

QueryErrorOn(call, next) ==
    /\ call.pc = "awaiting"
    /\ next = NearVectorFailed(call)

NearVectorDecodeOn(call, next) ==
    /\ call.pc = "received"
    /\ next = NearVectorDecoded(call.self, call)

NearVectorReturnOn(call, next) ==
    /\ call.pc = "done"
    /\ next = IdleQuery

NearVectorCall ==
    /\ NearVectorCallOn(nv, nv', NearVectorInputs)
    /\ UNCHANGED <<gflVars, nv2>>

QueryReply ==
    /\ QueryReplyOn(nv, nv')
    /\ UNCHANGED <<gflVars, nv2>>

QueryError ==
    /\ QueryErrorOn(nv, nv')
    /\ UNCHANGED <<gflVars, nv2>>

NearVectorDecode ==
    /\ NearVectorDecodeOn(nv, nv')
    /\ UNCHANGED <<gflVars, nv2>>

NearVectorReturn ==
    /\ NearVectorReturnOn(nv, nv')
    /\ UNCHANGED <<gflVars, nv2>>

QueryInit == nv = IdleQuery /\ nv2 = IdleQuery

QueryNext ==
    \/ NearVectorCall
    \/ QueryReply
    \/ QueryError
    \/ NearVectorDecode
    \/ NearVectorReturn

(***************************************************************************)
(* Specifications.  The GFL client and the query object share no state;    *)
(* each is checked with the other at rest.                                 *)
(***************************************************************************)
Init == GflInit /\ QueryInit

Next == GflNext \/ QueryNext

GflSpec == Init /\ [][GflNext]_vars

\* The query is checked on one GFL object, which stays at rest.
QueryConnection ==
    [ url |-> <<"https://cluster.weaviate.network", ":443">>,
      additional_headers |-> {<<"X-OpenAI-Api-Key", "sk">>},
      bearer |-> <<"Bearer ", "tok">> ]

InitQuery == Init /\ connection = QueryConnection

QuerySpec == InitQuery /\ [][QueryNext]_vars

(***************************************************************************)
(* Two near_vector calls and two GFL calls in flight on the same objects,  *)
(* interleaved in every order.                                             *)
(***************************************************************************)
ConcurrentArgs ==
    [ near_vector       : { <<1, 2>> },
      certainty         : {None},
      distance          : {None},
      limit             : {None},
      offset            : {None},
      auto_limit        : {None},
      filters           : {None},
      group_by          : {None},
      rerank            : {None},
      target_vector     : {None},
      include_vector    : {IncludeBool(FALSE)},
      return_metadata   : {None, Some({"distance"})},
      return_properties : {None},
      return_references : {None} ]

\* The two GFL calls in flight: one query and one status call.
ConcurrentInputs == {<<QuerySelf, a>> : a \in ConcurrentArgs}

ConcurrentOp(c) == IF c = "c1" THEN "query" ELSE "status"

ConcurrentGflArgs(op) ==
    IF op = "status" THEN StatusArgs
    ELSE { a \in QueryArgs : IsNone(a.collections) /\ IsNone(a.functions)
                             /\ IsNone(a.description) }

ConcurrentGflCall(c) ==
    /\ gcalls[c].pc = "idle"
    /\ \E a \in ConcurrentGflArgs(ConcurrentOp(c)) :
          gcalls' = [gcalls EXCEPT ![c] = GflStarted(gfl, ConcurrentOp(c), a)]
    /\ UNCHANGED <<connection, gfl, closed>>

FirstQueryStep ==
    /\ \/ NearVectorCallOn(nv, nv', ConcurrentInputs)
       \/ QueryReplyOn(nv, nv')
       \/ QueryErrorOn(nv, nv')
       \/ NearVectorDecodeOn(nv, nv')
       \/ NearVectorReturnOn(nv, nv')
    /\ UNCHANGED <<gflVars, nv2>>

SecondQueryStep ==
    /\ \/ NearVectorCallOn(nv2, nv2', ConcurrentInputs)
       \/ QueryReplyOn(nv2, nv2')
       \/ QueryErrorOn(nv2, nv2')
       \/ NearVectorDecodeOn(nv2, nv2')
       \/ NearVectorReturnOn(nv2, nv2')
    /\ UNCHANGED <<gflVars, nv>>

GflStep(c) ==
    /\ \/ ConcurrentGflCall(c)
       \/ GflComplete(c)
       \/ GflReturn(c)
    /\ UNCHANGED <<nv, nv2>>

ConcurrentNext ==
    \/ FirstQueryStep
    \/ SecondQueryStep
    \/ \E c \in GCalls : GflStep(c)

ConcurrentSpec == InitQuery /\ [][ConcurrentNext]_vars

(***************************************************************************)
(* Properties of the GFL request operations                                *)
(***************************************************************************)
RequestOps == {"get", "post", "put", "delete"}

Finished(c) == gcalls[c].pc = "done"

TransportFailed(c) ==
    /\ Finished(c)
    /\ gcalls[c].outcome.kind = "error"
    /\ gcalls[c].outcome.exc \in TransportErrors

\* C1: when the HTTP client fails with a transport error, get, post, put and
\* delete end by raising WeaviateConnectionError whose cause is that error;
\* the caller gets neither the raw error nor a response.
Thm_C1_TransportErrorWrapped ==
    \A c \in GCalls :
        (TransportFailed(c) /\ gcalls[c].op \in RequestOps) =>
            /\ gcalls[c].result.kind = "raise"
            /\ gcalls[c].result.exc = "WeaviateConnectionError"
            /\ gcalls[c].result.cause = gcalls[c].outcome.exc
            /\ gcalls[c].result.value.type = "none"

Wit_C1_TransportErrorWrapped ==
    \E c \in GCalls :
        /\ TransportFailed(c)
        /\ gcalls[c].op = "post"
        /\ gcalls[c].outcome.exc = "ReadTimeout"
        /\ gcalls[c].result.exc = "WeaviateConnectionError"
        /\ gcalls[c].result.cause = "ReadTimeout"

\* C2: for get, post, put and delete (and so create, update, query and
\* status) a reply with HTTP status >= 400 makes the operation raise to the
\* caller, and nothing is printed in place of raising.
Claim_C2_ErrorStatusRaises ==
    \A c \in GCalls :
        (/\ Finished(c)
         /\ gcalls[c].outcome.kind = "response"
         /\ gcalls[c].outcome.status >= 400) =>
            /\ gcalls[c].result.kind = "raise"
            /\ ~gcalls[c].result.printed

\* C3: one call hands at most one request to the HTTP client, and a call
\* whose request failed ends in a raise having sent that one request only.
Thm_C3_NoSilentRetry ==
    \A c \in GCalls :
        /\ gcalls[c].sent <= 1
        /\ (Finished(c) /\ gcalls[c].outcome.kind = "error") =>
              (gcalls[c].sent = 1 /\ gcalls[c].result.kind = "raise")

Wit_C3_NoSilentRetry ==
    \E c \in GCalls :
        /\ TransportFailed(c)
        /\ gcalls[c].op \in {"create", "update", "query", "status"}
        /\ gcalls[c].sent = 1
        /\ gcalls[c].result.kind = "raise"

(***************************************************************************)
(* Properties of near_vector                                               *)
(***************************************************************************)
Active == nv.pc # "idle"

Returned == nv.pc = "done" /\ nv.result.kind = "return"

Objects == nv.result.value.objects

\* The SearchResults of the reply in the order the server sent them.
WireResults ==
    IF IsNone(nv.request.group_by) THEN nv.reply.results
    ELSE Flatten(nv.reply.group_by_results)

SentMetadata == Unwrap(nv.request.metadata)

SentProperties == Unwrap(nv.request.properties)

\* C4: one near_vector call makes exactly one transport round trip; nothing
\* is decoded before the reply is in, and decoding makes no further trip.
Thm_C4_SingleRoundTrip ==
    /\ Active => nv.sends = 1
    /\ nv.pc \in {"idle", "awaiting"} => nv.replies = 0
    /\ nv.pc \in {"idle", "awaiting", "received"} => nv.result = NoResult
    /\ nv.pc = "received" => nv.replies = 1
    /\ Returned => (nv.sends = 1 /\ nv.replies = 1
                    /\ Len(Objects) = Len(WireResults))

Wit_C4_SingleRoundTrip ==
    /\ Returned
    /\ nv.sends = 1
    /\ nv.replies = 1
    /\ Len(Objects) = MaxResults

\* C5: the request near_vector builds has the near_vector search-mode field
\* present and every other search-mode field absent, whatever optional
\* arguments are given.
Thm_C5_OnlyNearVectorMode ==
    Active => /\ PresentModes(nv.request) = {"near_vector"}
              /\ \A f \in ModeFields \ {"near_vector"} : IsNone(nv.request[f])

Wit_C5_OnlyNearVectorMode ==
    /\ Active
    /\ ~IsNone(nv.args.certainty) /\ ~IsNone(nv.args.limit)
    /\ ~IsNone(nv.args.filters) /\ ~IsNone(nv.args.group_by)
    /\ ~IsNone(nv.args.rerank) /\ ~IsNone(nv.args.target_vector)
    /\ ~IsNone(nv.args.return_metadata) /\ ~IsNone(nv.args.return_references)
    /\ PresentModes(nv.request) = {"near_vector"}

\* The attributes a MetadataRequest flag asks for.
FlaggedAttrs == PresenceAttrs \cap MetadataFlags

\* The call leaves return_metadata and include_vector at their defaults.
MetadataDefaults ==
    IsNone(nv.args.return_metadata) /\ nv.args.include_vector = IncludeBool(FALSE)

\* The metadata request sent has no flag set and names no vector.
EmptyMetadataSent ==
    /\ nv.request.metadata = Some(MetadataRequest)
    /\ \A f \in MetadataFlags : ~SentMetadata[f]
    /\ SentMetadata.vectors = << >>

NamedProperties ==
    IF IsNone(nv.args.return_properties) THEN {}
    ELSE {Unwrap(nv.args.return_properties)[k] :
             k \in 1..Len(Unwrap(nv.args.return_properties))}

\* C7: with return_properties=None the properties request sets the
\* return-all-non-reference-properties flag and names no property, and every
\* object returned has exactly the non-blob properties; a blob property is
\* in a returned object exactly when return_properties names it.
Thm_C7_AllButBlobByDefault ==
    /\ (Active /\ IsNone(nv.args.return_properties)) =>
          /\ SentProperties.return_all_nonref_properties
          /\ SentProperties.non_ref_properties = << >>
          /\ Returned =>
                \A k \in 1..Len(Objects) :
                    DOMAIN Objects[k].properties = NonRefProps \ BlobProps
    /\ Returned =>
          \A k \in 1..Len(Objects) : \A b \in BlobProps :
              (b \in DOMAIN Objects[k].properties) <=> (b \in NamedProperties)

Wit_C7_AllButBlobByDefault ==
    /\ Returned
    /\ IsNone(nv.args.return_properties)
    /\ Len(Objects) >= 1
    /\ DOMAIN Objects[1].properties = {"title"}
    /\ "image" \in NonRefProps

\* C8: with return_references=None the request asks for no reference
\* property and no object returned exposes a reference, resolved by the
\* server or not.
Thm_C8_NoReferencesByDefault ==
    (Active /\ IsNone(nv.args.return_references)) =>
        /\ SentProperties.ref_properties = << >>
        /\ Returned => \A k \in 1..Len(Objects) : IsNone(Objects[k].references)

Wit_C8_NoReferencesByDefault ==
    /\ Returned
    /\ IsNone(nv.args.return_references)
    /\ Len(Objects) >= 1
    /\ WireResults[1].properties.ref_props # << >>
    /\ IsNone(Objects[1].references)

\* C9: include_vector true sets the metadata request's vector flag whatever
\* return_metadata is; a list of names goes to the named-vectors list and
\* leaves the flag unset; false leaves both unset.
Thm_C9_IncludeVectorFolded ==
    Active =>
        /\ nv.args.include_vector = IncludeBool(TRUE) =>
              (SentMetadata.vector /\ SentMetadata.vectors = << >>)
        /\ nv.args.include_vector.kind = "list" =>
              (~SentMetadata.vector
               /\ SentMetadata.vectors = nv.args.include_vector.names)
        /\ nv.args.include_vector = IncludeBool(FALSE) =>
              (~SentMetadata.vector /\ SentMetadata.vectors = << >>)

Wit_C9_IncludeVectorFolded ==
    /\ Active
    /\ nv.args.include_vector = IncludeBool(TRUE)
    /\ IsNone(nv.args.return_metadata)
    /\ SentMetadata.vector
    /\ \A f \in MetadataFlags \ {"vector"} : ~SentMetadata[f]

\* C10: for every MetadataResult attribute with a "_present" companion, a
\* returned object exposes the attribute exactly when the companion is true,
\* and then with the wire value, zero included.
Thm_C10_PresenceFlagsRespected ==
    Returned =>
        /\ Len(Objects) = Len(WireResults)
        /\ \A k \in 1..Len(Objects) : \A a \in PresenceAttrs :
              IF WireResults[k].metadata.present[a]
              THEN Objects[k].metadata[a] = Some(WireResults[k].metadata.value[a])
              ELSE IsNone(Objects[k].metadata[a])

Wit_C10_PresenceFlagsRespected ==
    /\ Returned
    /\ Len(Objects) >= 1
    /\ \E a, b \in PresenceAttrs :
          /\ WireResults[1].metadata.present[a]
          /\ WireResults[1].metadata.value[a] = 0
          /\ Objects[1].metadata[a] = Some(0)
          /\ ~WireResults[1].metadata.present[b]
          /\ WireResults[1].metadata.value[b] # 0
          /\ IsNone(Objects[1].metadata[b])

(***************************************************************************)
(* Optional scalars on the wire                                            *)
(***************************************************************************)
SentNearVector == Unwrap(nv.request.near_vector)

\* Whether a reader of the request can tell that the field was set.  The
\* fields declared `optional` (NearVector.certainty, NearVector.distance)
\* have a presence bit; limit, offset and autocut are plain uint32 fields,
\* which read as set only when they differ from zero.
SetOnWire(field) ==
    CASE field = "certainty" -> ~IsNone(SentNearVector.certainty)
      [] field = "distance"  -> ~IsNone(SentNearVector.distance)
      [] field = "limit"     -> nv.request.limit # 0
      [] field = "offset"    -> nv.request.offset # 0
      [] field = "autocut"   -> nv.request.autocut # 0

\* The caller's argument that goes to a request field.
ArgumentOf(field) ==
    IF field = "autocut" THEN nv.args.auto_limit ELSE nv.args[field]

ScalarFields == {"certainty", "distance", "limit", "offset", "autocut"}

PlainScalarFields == {"limit", "offset", "autocut"}

\* C11 as stated: for certainty, distance, limit, offset and auto_limit the
\* request shows the field as set exactly when the caller supplied a value,
\* a supplied zero included.
Claim_C11_EveryScalarHasPresence ==
    Active => \A f \in ScalarFields : SetOnWire(f) <=> ~IsNone(ArgumentOf(f))

\* C11 as amended: certainty and distance travel as value plus presence bit,
\* so a supplied zero differs from omission and an omitted one is absent;
\* limit, offset and auto_limit travel as the bare value in a field without
\* presence bit, zero when omitted, so that a supplied zero reads as unset.
Thm_C11_PresenceOnlyForThresholds ==
    Active =>
        /\ SentNearVector.certainty = nv.args.certainty
        /\ SentNearVector.distance = nv.args.distance
        /\ \A f \in PlainScalarFields :
              /\ nv.request[f] = ScalarField(ArgumentOf(f))
              /\ IsNone(ArgumentOf(f)) => ~SetOnWire(f)
              /\ ArgumentOf(f) = Some(0) => ~SetOnWire(f)
              /\ SetOnWire(f) => ArgumentOf(f) = Some(nv.request[f])

Wit_C11_PresenceOnlyForThresholds ==
    /\ Active
    /\ nv.args.distance = Some(0) /\ SetOnWire("distance")
    /\ IsNone(nv.args.certainty) /\ ~SetOnWire("certainty")
    /\ nv.args.limit = Some(0) /\ ~SetOnWire("limit")
    /\ IsNone(nv.args.offset) /\ nv.request.offset = 0

(***************************************************************************)
(* Shape of the return value                                               *)
(***************************************************************************)
GroupBySupplied == ~IsNone(nv.args.group_by)

\* C13: near_vector returns the group-by shape exactly when the caller
\* supplied group_by and the flat shape exactly when group_by is None, and
\* the request carries a group_by sub-message exactly in the same case.
Thm_C13_GroupByDecidesShape ==
    /\ Active => (~IsNone(nv.request.group_by) <=> GroupBySupplied)
    /\ Returned =>
          /\ nv.result.value.type = "GroupByReturn" <=> GroupBySupplied
          /\ nv.result.value.type = "QueryReturn" <=> ~GroupBySupplied
          /\ GroupBySupplied =>
                Len(nv.result.value.groups) = Len(nv.reply.group_by_results)
          /\ ~GroupBySupplied => nv.result.value.groups = << >>

Wit_C13_GroupByDecidesShape ==
    /\ Returned
    /\ GroupBySupplied
    /\ IsNone(nv.args.rerank)
    /\ ~IsNone(nv.request.group_by)
    /\ nv.result.value.type = "GroupByReturn"
    /\ Len(nv.result.value.groups) = 1
    /\ Len(Objects) = MaxResults

(***************************************************************************)
(* Order of the returned objects                                           *)
(***************************************************************************)
\* What identifies the k-th returned object: its property values (and its
\* vector when one was asked for) are those of exactly one result on the wire.
SameObject(obj, res) ==
    /\ obj.properties = res.properties.non_ref_props
    /\ obj.uuid = res.metadata.id
    /\ obj.vector.default \in {<< >>, res.metadata.vector_bytes}

\* C14: for a reply with results r1..rn near_vector returns exactly n
\* objects and the i-th of them is the decoding of ri: nothing is re-sorted,
\* dropped or duplicated.
Thm_C14_ServerOrderKept ==
    Returned =>
        /\ Len(Objects) = Len(WireResults)
        /\ \A k \in 1..Len(Objects) : SameObject(Objects[k], WireResults[k])
        /\ \A j, k \in 1..Len(Objects) :
              j # k => ~SameObject(Objects[j], WireResults[k])

Wit_C14_ServerOrderKept ==
    /\ Returned
    /\ IsNone(nv.args.group_by)
    /\ Len(nv.reply.results) = MaxResults
    /\ Len(Objects) = MaxResults
    /\ Objects[1].properties # Objects[2].properties
    /\ SameObject(Objects[2], nv.reply.results[2])

(***************************************************************************)
(* The decoder's options against the request                               *)
(***************************************************************************)
\* What the request sent to the server asks for; the vector flag of the
\* MetadataRequest is the subject of the vector option, not of the metadata
\* option.
RequestAsks ==
    [ include_metadata   |-> \/ \E f \in MetadataFlags \ {"vector"} : SentMetadata[f]
                             \/ ~IsNone(nv.request.rerank),
      include_properties |-> \/ SentProperties.return_all_nonref_properties
                             \/ SentProperties.non_ref_properties # << >>,
      include_references |-> SentProperties.ref_properties # << >>,
      include_vector     |-> SentMetadata.vector \/ SentMetadata.vectors # << >>,
      is_group_by        |-> ~IsNone(nv.request.group_by) ]

EmptyMetadataSelection ==
    nv.args.return_metadata = Some({}) /\ IsNone(nv.args.rerank)

EmptyReferencesList == nv.args.return_references = Some(<< >>)

\* The collection object carries references and the call names none.
CollectionReferencesOnly ==
    IsNone(nv.args.return_references) /\ ~IsNone(nv.self.references)

AloneQuery(q) ==
    /\ q.pc # "idle" =>
          q.request = QueryGRPC_request(q.self, near_vector_query(q.args))
    /\ (q.pc = "done" /\ q.result.kind = "return") =>
          q.result.value =
              result_to_query_or_groupby_return(
                  near_vector_decode(q.self, q.args, q.reply))
    /\ (q.pc = "done" /\ q.result.kind = "raise") => q.replies = 0

\* What the GFL call c yields when it runs alone.
AloneGfl(c) ==
    /\ gcalls[c].pc # "idle" =>
          gcalls[c].request = GflRequest(gfl, gcalls[c].op, gcalls[c].args)
    /\ gcalls[c].pc = "done" =>
          gcalls[c].result = GflFinish(gcalls[c].op, gcalls[c].outcome)

\* A step moves one call and leaves every other call's record as it was.
OneCallMoves ==
    /\ nv' # nv => (nv2' = nv2 /\ gcalls' = gcalls)
    /\ nv2' # nv2 => (nv' = nv /\ gcalls' = gcalls)
    /\ \A c \in GCalls : gcalls'[c] # gcalls[c] =>
          /\ nv' = nv /\ nv2' = nv2
          /\ \A d \in GCalls \ {c} : gcalls'[d] = gcalls[d]

\* C16: in every interleaving of two near_vector calls and two GFL calls
\* each call's request and result are those the call yields run alone, and
\* no step of one call changes the record of another.
Thm_C16_ConcurrentCallsIndependent ==
    /\ [](AloneQuery(nv) /\ AloneQuery(nv2) /\ \A c \in GCalls : AloneGfl(c))
    /\ [][OneCallMoves]_vars

\* Both near_vector calls are through with different arguments and different
\* replies while both GFL calls are in flight.
Wit_C16_ConcurrentCallsIndependent ==
    /\ nv.pc = "done" /\ nv2.pc = "done"
    /\ nv.result.kind = "return" /\ nv2.result.kind = "return"
    /\ nv.args # nv2.args
    /\ nv.request # nv2.request
    /\ Len(nv.result.value.objects) = MaxResults
    /\ Len(nv2.result.value.objects) = 1
    /\ gcalls["c1"].pc = "done" /\ gcalls["c2"].pc = "awaiting"
    /\ gcalls["c1"].request # gcalls["c2"].request

(***************************************************************************)
(* The GFL object's fields after construction                              *)
(***************************************************************************)
BodyOps == {"create", "update", "query"}

\* The request body of the call c.
Body(c) == Unwrap(gcalls[c].request.json)

\* Every body built by create, update and query names the cluster URL and
\* the token the object holds, the token without the "Bearer " chunk.
BodiesCarryOwnFields ==
    \A c \in GCalls :
        (gcalls[c].pc # "idle" /\ gcalls[c].op \in BodyOps) =>
            /\ Body(c).weaviate.url = gfl.cluster_host
            /\ Body(c).weaviate.key = gfl.token
            /\ \A k \in 1..Len(Body(c).weaviate.key) :
                  Body(c).weaviate.key[k] # "Bearer "

\* C17: the object's name, hosts, headers, timeout and token are those set
\* at construction and no call or token refresh changes them; the bodies of
\* create, update and query carry the construction-time cluster URL and
\* token, whatever the connection's token is by then.
Thm_C17_FieldsFixedAtConstruction ==
    /\ gfl = GFLBaseInit(connection, gfl.name)
    /\ [][gfl' = gfl]_vars
    /\ []BodiesCarryOwnFields

Wit_C17_FieldsFixedAtConstruction ==
    /\ connection.bearer = RefreshedBearer
    /\ gfl.token = <<"tok">>
    /\ gcalls["c1"].pc = "done" /\ gcalls["c1"].op = "query"
    /\ gcalls["c2"].pc = "awaiting" /\ gcalls["c2"].op = "create"
    /\ Body("c2").weaviate.key = <<"tok">>
    /\ Body("c2").weaviate.url = <<"https://cluster.weaviate.network">>

(***************************************************************************)
(* Defaults of _GFLAsync.query                                             *)
(***************************************************************************)
\* The caller gave a list with at least one entry.
GivenNonEmpty(x) == ~IsNone(x) /\ Unwrap(x) # << >>

\* The query call c has built its request.
QueryBuilt(c) == gcalls[c].pc # "idle" /\ gcalls[c].op = "query"

\* C18: the body of query holds the caller's collections when that list is
\* non-empty and otherwise one entry with the object's own collection name
\* and the given description; functions likewise, with the default
\* ["weaviate-search", "weaviate-gorilla"]; neither list is ever empty.
Thm_C18_QueryDefaults ==
    \A c \in GCalls :
        QueryBuilt(c) =>
            LET a == gcalls[c].args
                b == Body(c)
            IN  /\ GivenNonEmpty(a.collections) =>
                      b.collections = Unwrap(a.collections)
                /\ ~GivenNonEmpty(a.collections) =>
                      b.collections = <<[name |-> gfl.name,
                                         description |-> a.description]>>
                /\ GivenNonEmpty(a.functions) => b.functions = Unwrap(a.functions)
                /\ ~GivenNonEmpty(a.functions) =>
                      b.functions = <<"weaviate-search", "weaviate-gorilla">>
                /\ b.collections # << >>
                /\ b.functions # << >>

Wit_C18_QueryDefaults ==
    /\ QueryBuilt("c1") /\ QueryBuilt("c2")
    /\ gcalls["c1"].args.collections = Some(<< >>)
    /\ gcalls["c1"].args.functions = Some(<< >>)
    /\ gcalls["c1"].args.description = Some("articles")
    /\ Body("c1").collections = <<[name |-> "Article", description |-> Some("articles")]>>
    /\ Len(Body("c1").functions) = 2
    /\ GivenNonEmpty(gcalls["c2"].args.collections)
    /\ Body("c2").collections[1].name = "Other"
    /\ Body("c2").functions = <<"weaviate-search">>

====
